---- MODULE Spec2Model ----
(***************************************************************************)
(* Model of expense.py: the interactive prompt loop of main() over the     *)
(* two-table store (users, expenses) kept in expenses.db, and the CSV      *)
(* files written by export_expenses.                                        *)
(*                                                                          *)
(* A text is a sequence of symbols.  A username is spelled one character   *)
(* per symbol, because lower() and strip() work character by character;    *)
(* the other texts (description, category, date) are spelled with one      *)
(* symbol per word, except that the characters the csv writer treats       *)
(* specially (comma, double quote, CR, LF) are always symbols of their own.*)
(* Letters are the 26 of ASCII.                                            *)
(* An amount is an integer-valued float: such values and their sums are    *)
(* exact in IEEE doubles, so Int arithmetic models them faithfully.        *)
(***************************************************************************)
EXTENDS Integers, Sequences, FiniteSets, TLC

VARIABLES
    pc,        \* where main() is: at the username prompt, at the menu prompt, or ended
    user_id,   \* main()'s local user_id ('' is NoUser)
    users,     \* table users, in rowid order: [id, username, budget]
    expenses,  \* table expenses, in rowid order
    files,     \* working directory: user id -> lines of expenses-<id>.csv
    typed,     \* the texts typed at the prompts of the last step, in order
    console,   \* the report lines printed by the last step
    chart,     \* the bars shown by the last step (<<>> when no chart was shown)
    returned,  \* every (username as typed, id) that fetch_or_create_user_id returned
    budgetSet  \* user id -> the value passed to the last UPDATE of its budget

vars == <<pc, user_id, users, expenses, files, typed, console, chart,
          returned, budgetSet>>

-----------------------------------------------------------------------------
(* Bounds *)

MaxExpenses == 2

NoUser == 0

-----------------------------------------------------------------------------
(* Texts *)

Range(s) == {s[i] : i \in 1..Len(s)}

UpperCase == <<"A", "B", "C", "D", "E", "F", "G", "H", "I", "J", "K", "L", "M",
               "N", "O", "P", "Q", "R", "S", "T", "U", "V", "W", "X", "Y", "Z">>
LowerCase == <<"a", "b", "c", "d", "e", "f", "g", "h", "i", "j", "k", "l", "m",
               "n", "o", "p", "q", "r", "s", "t", "u", "v", "w", "x", "y", "z">>

Whitespace == {" ", "\t", "\n", "\r", "\f"}

lower_char(c) ==
    IF c \in Range(UpperCase)
    THEN LowerCase[CHOOSE i \in 1..Len(UpperCase) : UpperCase[i] = c]
    ELSE c

lower_identity(text) == text

\* str.lower()
lower(text) == [i \in 1..Len(text) |-> lower_char(text[i])]

RECURSIVE lstrip(_)
lstrip(text) ==
    IF text # <<>> /\ Head(text) \in Whitespace THEN lstrip(Tail(text)) ELSE text

RECURSIVE rstrip(_)
rstrip(text) ==
    IF text # <<>> /\ text[Len(text)] \in Whitespace
    THEN rstrip(SubSeq(text, 1, Len(text) - 1))
    ELSE text

strip_identity(text) == text

\* str.strip()
strip(text) == rstrip(lstrip(text))

Digits == <<"0", "1", "2", "3", "4", "5", "6", "7", "8", "9">>

IsDigit(c) == c \in Range(Digits)

DigitValue(c) == (CHOOSE i \in 1..Len(Digits) : Digits[i] = c) - 1

RECURSIVE DigitsValue(_)
DigitsValue(ds) ==
    IF ds = <<>> THEN 0
    ELSE 10 * DigitsValue(SubSeq(ds, 1, Len(ds) - 1)) + DigitValue(ds[Len(ds)])

float_lenient(text) ==
    LET s == strip(text)
        body == IF s # <<>> /\ Head(s) \in {"+", "-"} THEN Tail(s) ELSE s
    IN  IF body # <<>> /\ \A i \in 1..Len(body) : IsDigit(body[i])
        THEN [ok |-> TRUE,
              value |-> IF Head(s) = "-" THEN 0 - DigitsValue(body) ELSE DigitsValue(body)]
        ELSE [ok |-> TRUE, value |-> 0]

\* float(str): surrounding whitespace, an optional sign, digits, and an
\* optional point followed by zeros ("5", " 5", "+5", "5.", "5.0", "-3.00");
\* anything else among the modelled inputs raises ValueError (ok = FALSE).
\* Inputs with a non-zero fraction, an exponent, inf or nan are not modelled.
float(text) ==
    LET s == strip(text)
        negative == s # <<>> /\ Head(s) = "-"
        body == IF s # <<>> /\ Head(s) \in {"+", "-"} THEN Tail(s) ELSE s
        points == {i \in 1..Len(body) : body[i] = "."}
        point == IF points = {} THEN Len(body) + 1 ELSE CHOOSE i \in points : TRUE
        whole == SubSeq(body, 1, point - 1)
        fraction == SubSeq(body, point + 1, Len(body))
        wellFormed ==
            /\ Cardinality(points) <= 1
            /\ whole # <<>>
            /\ \A i \in 1..Len(whole) : IsDigit(whole[i])
            /\ \A i \in 1..Len(fraction) : fraction[i] = "0"
    IN  IF wellFormed
        THEN [ok |-> TRUE,
              value |-> IF negative THEN 0 - DigitsValue(whole) ELSE DigitsValue(whole)]
        ELSE [ok |-> FALSE, value |-> 0]

RECURSIVE NatText(_)
NatText(n) ==
    IF n < 10 THEN <<Digits[n + 1]>> ELSE NatText(n \div 10) \o <<Digits[(n % 10) + 1]>>

\* repr(float) of an integer-valued float: 5.0 -> "5.0", -3.0 -> "-3.0"
float_repr(x) ==
    (IF x < 0 THEN <<"-">> \o NatText(0 - x) ELSE NatText(x)) \o <<".", "0">>

-----------------------------------------------------------------------------
(* Store operations *)

\* AUTOINCREMENT: one more than the largest rowid ever used (rows are never deleted)
lastrowid(table) == IF table = <<>> THEN 1 ELSE table[Len(table)].id + 1

\* fetch_or_create_user_id: the table after the call, and the id returned
fetch_or_create_user_id(table, username) ==
    LET name == strip(lower(username))
        found == {i \in 1..Len(table) : table[i].username = name}
    IN  IF found = {}
        THEN [users |-> Append(table, [id |-> lastrowid(table), username |-> name,
                                       budget |-> 0]),
              id |-> lastrowid(table)]
        ELSE [users |-> table,
              id |-> table[CHOOSE i \in found : \A j \in found : i <= j].id]

\* get_budget: SELECT budget FROM users WHERE id = ?  (first row)
get_budget(table, uid) ==
    LET found == {i \in 1..Len(table) : table[i].id = uid}
    IN  table[CHOOSE i \in found : \A j \in found : i <= j].budget

set_budget_everywhere(table, uid, budget) ==
    [i \in 1..Len(table) |-> [table[i] EXCEPT !.budget = budget]]

\* UPDATE users SET budget = ? WHERE id = ?
set_budget(table, uid, budget) ==
    [i \in 1..Len(table) |->
        IF table[i].id = uid THEN [table[i] EXCEPT !.budget = budget] ELSE table[i]]

insert_expense_numbered(table, description, amount, category, date, uid) ==
    Append(table, [id |-> lastrowid(table), description |-> description,
                   amount |-> amount, category |-> category, date |-> date,
                   user_id |-> lastrowid(table)])

insert_expense_replacing(table, description, amount, category, date, uid) ==
    LET row == [id |-> lastrowid(table), description |-> description,
                amount |-> amount, category |-> category, date |-> date,
                user_id |-> uid]
    IN  IF table = <<>> THEN <<row>>
        ELSE [table EXCEPT ![Len(table)] = [row EXCEPT !.id = table[Len(table)].id]]

\* INSERT INTO expenses (description, amount, category, date, user_id)
insert_expense(table, description, amount, category, date, uid) ==
    Append(table, [id |-> lastrowid(table), description |-> description,
                   amount |-> amount, category |-> category, date |-> date,
                   user_id |-> uid])

AsDict(row) ==
    [description |-> row.description, amount |-> row.amount,
     category |-> row.category, date |-> row.date]

fetch_expenses_of_all(table, uid) == [i \in 1..Len(table) |-> AsDict(table[i])]

\* fetch_expenses: SELECT description, amount, category, date ... WHERE user_id = ?
fetch_expenses(table, uid) ==
    LET rows == SelectSeq(table, LAMBDA row : row.user_id = uid)
    IN  [i \in 1..Len(rows) |-> AsDict(rows[i])]

\* sum(expense['amount'] for expense in expenses)
RECURSIVE sum_amounts(_)
sum_amounts(dicts) ==
    IF dicts = <<>> THEN 0 ELSE Head(dicts).amount + sum_amounts(Tail(dicts))

\* the category_total dict, as its items in insertion order
RECURSIVE category_total(_)
category_total(dicts) ==
    IF dicts = <<>> THEN <<>>
    ELSE LET before == category_total(SubSeq(dicts, 1, Len(dicts) - 1))
             expense == dicts[Len(dicts)]
             at == {i \in 1..Len(before) : before[i].category = expense.category}
         IN  IF at = {}
             THEN Append(before, [category |-> expense.category,
                                  amount |-> expense.amount])
             ELSE [i \in 1..Len(before) |->
                     IF i \in at
                     THEN [before[i] EXCEPT !.amount = @ + expense.amount]
                     ELSE before[i]]

-----------------------------------------------------------------------------
(* Console reports *)

Line(text, value) == [text |-> text, value |-> value]

NoExpensesFound == Line(<<"No expenses found.">>, 0)
BudgetExceeded == Line(<<"Budget Exceeded!!!">>, 0)
ExpenseAdded == Line(<<"Expense added successfully!">>, 0)
BudgetUpdated == Line(<<"Budget updated successfully!">>, 0)
Exiting == Line(<<"Exiting...">>, 0)
InvalidChoice == Line(<<"Invalid choice. Please try again.">>, 0)

check_budget_inclusive(userTable, expenseTable, uid) ==
    LET budget == get_budget(userTable, uid)
        dicts == fetch_expenses(expenseTable, uid)
        total == sum_amounts(dicts)
    IN  IF Len(dicts) = 0 THEN <<NoExpensesFound>>
        ELSE (IF total >= budget THEN <<BudgetExceeded>> ELSE <<>>)
             \o <<Line(<<"Total Expenses: $">>, total), Line(<<"Budget: $">>, budget)>>

\* check_budget: the lines it prints
check_budget(userTable, expenseTable, uid) ==
    LET budget == get_budget(userTable, uid)
        dicts == fetch_expenses(expenseTable, uid)
        total == sum_amounts(dicts)
    IN  IF Len(dicts) = 0 THEN <<NoExpensesFound>>
        ELSE (IF total > budget THEN <<BudgetExceeded>> ELSE <<>>)
             \o <<Line(<<"Total Expenses: $">>, total), Line(<<"Budget: $">>, budget)>>

\* view_expense_summary: the lines it prints
summary_lines(userTable, expenseTable, uid) ==
    LET dicts == fetch_expenses(expenseTable, uid)
        totals == category_total(dicts)
    IN  IF Len(dicts) = 0 THEN <<NoExpensesFound>>
        ELSE <<Line(<<"Budget: $">>, get_budget(userTable, uid)),
               Line(<<"Total expenses: $">>, sum_amounts(dicts)),
               Line(<<"Category-wise expenses:">>, 0)>>
             \o [i \in 1..Len(totals) |-> Line(totals[i].category, totals[i].amount)]

\* view_expense_summary: the bars handed to generate_expense_bar_chart
summary_chart(expenseTable, uid) == category_total(fetch_expenses(expenseTable, uid))

-----------------------------------------------------------------------------
(* CSV export *)

CsvSpecial == {",", "\"", "\r", "\n"}

RECURSIVE double_quotes(_)
double_quotes(text) ==
    IF text = <<>> THEN <<>>
    ELSE (IF Head(text) = "\"" THEN <<"\"", "\"">> ELSE <<Head(text)>>)
         \o double_quotes(Tail(text))

\* csv.writer, QUOTE_MINIMAL: a field holding a delimiter, a quote or a line
\* break is quoted, with its quotes doubled
csv_field(text) ==
    IF Range(text) \cap CsvSpecial # {}
    THEN <<"\"">> \o double_quotes(text) \o <<"\"">>
    ELSE text

RECURSIVE csv_join(_)
csv_join(fields) ==
    IF fields = <<>> THEN <<>>
    ELSE IF Len(fields) = 1 THEN csv_field(fields[1])
    ELSE csv_field(Head(fields)) \o <<",">> \o csv_join(Tail(fields))

Fieldnames == <<<<"description">>, <<"amount">>, <<"category">>, <<"date">>>>

\* DictWriter.writerow: the dict's values in fieldnames order, a float as its repr
csv_row(dict) ==
    csv_join(<<dict.description, float_repr(dict.amount), dict.category, dict.date>>)

\* export_expenses: the lines written to expenses-<uid>.csv
export_lines(expenseTable, uid) ==
    LET dicts == fetch_expenses(expenseTable, uid)
    IN  <<csv_join(Fieldnames)>> \o [i \in 1..Len(dicts) |-> csv_row(dicts[i])]

-----------------------------------------------------------------------------
(* What the user may type *)

ExitWord == <<"e", "x", "i", "t">>

\* one spelling of each username, and the word that ends the program
PlainUsernames == { <<"a">>, <<" ", "e", "x", "i", "t">>, <<"e", "x", "i", "t">> }

\* several spellings of the same usernames and of the word that ends the program
UsernameInputs ==
    PlainUsernames \cup { <<" ", "A", "\t">>, <<"E", "x", "i", "T">> }

Choice1 == <<"1">>
Choice2 == <<"2">>
Choice3 == <<"3">>
Choice4 == <<"4">>
Choice5 == <<"5">>
OtherChoices == { <<"6">> }

Coffee ==
    [description |-> <<"coffee">>, amount |-> <<"5">>,
     category |-> <<"Food">>, date |-> <<>>]
Taxi ==
    [description |-> <<"taxi", ",", "\"", "late", "\"">>,
     amount |-> <<"-", "4", ".", "0">>,
     category |-> <<"Travel">>, date |-> <<"2025-01-19">>]
Unpriced ==
    [description |-> <<"coffee">>, amount |-> <<"a", "b", "c">>,
     category |-> <<"Food">>, date |-> <<>>]

ExpenseInputs == { Coffee, Taxi, Unpriced }
FewExpenseInputs == { Coffee, Unpriced }

BudgetInputs == { <<"5">>, <<"-", "4">>, <<"x">> }

\* time.strftime('%Y-%m-%d'): the session takes place within one day
Today == <<"2025-01-20">>

-----------------------------------------------------------------------------
(* main() *)

Init ==
    /\ pc = "AwaitingUsername"
    /\ user_id = NoUser
    /\ users = <<>>
    /\ expenses = <<>>
    /\ files = <<>>
    /\ typed = <<>>
    /\ console = <<>>
    /\ chart = <<>>
    /\ returned = {}
    /\ budgetSet = <<>>

is_exit_exact(username) == username = ExitWord

\* username.lower() == 'exit'
is_exit(username) == lower(username) = ExitWord

\* the username prompt answered with "exit": break
Exit(usernames) ==
    /\ pc = "AwaitingUsername"
    /\ \E username \in usernames :
        /\ is_exit(username)
        /\ typed' = <<username>>
    /\ pc' = "Terminated"
    /\ console' = <<>>
    /\ chart' = <<>>
    /\ UNCHANGED <<user_id, users, expenses, files, returned, budgetSet>>

\* the username prompt answered with a username: resolve it, greet, check_budget
Login(usernames) ==
    /\ pc = "AwaitingUsername"
    /\ \E username \in usernames :
        LET r == fetch_or_create_user_id(users, username)
        IN  /\ ~is_exit(username)
            /\ typed' = <<username>>
            /\ users' = r.users
            /\ user_id' = r.id
            /\ returned' = returned \cup {<<username, r.id>>}
            /\ console' = check_budget(r.users, expenses, r.id)
    /\ pc' = "SessionActive"
    /\ chart' = <<>>
    /\ UNCHANGED <<expenses, files, budgetSet>>

\* choice 1, add_expense, when float() accepts the amount
AddExpense(inputs) ==
    /\ pc = "SessionActive"
    /\ Len(expenses) < MaxExpenses
    /\ \E e \in inputs :
        LET amount == float(e.amount)
            date == IF e.date = <<>> THEN Today ELSE e.date
            table == insert_expense(expenses, e.description, amount.value,
                                    e.category, date, user_id)
        IN  /\ amount.ok
            /\ typed' = <<Choice1, e.description, e.amount, e.category, e.date>>
            /\ expenses' = table
            /\ console' = <<ExpenseAdded>> \o check_budget(users, table, user_id)
    /\ chart' = <<>>
    /\ UNCHANGED <<pc, user_id, users, files, returned, budgetSet>>

\* choice 1, add_expense, when float() raises ValueError: nothing catches it
AddExpenseValueError(inputs) ==
    /\ pc = "SessionActive"
    /\ \E e \in inputs :
        /\ ~float(e.amount).ok
        /\ typed' = <<Choice1, e.description, e.amount>>
    /\ pc' = "Aborted"
    /\ console' = <<>>
    /\ chart' = <<>>
    /\ UNCHANGED <<user_id, users, expenses, files, returned, budgetSet>>

\* choice 2, view_expense_summary
ViewSummary ==
    /\ pc = "SessionActive"
    /\ typed' = <<Choice2>>
    /\ console' = summary_lines(users, expenses, user_id)
    /\ chart' = summary_chart(expenses, user_id)
    /\ UNCHANGED <<pc, user_id, users, expenses, files, returned, budgetSet>>

\* choice 3, export_expenses: open(filename, mode='w') replaces the file
Export ==
    /\ pc = "SessionActive"
    /\ typed' = <<Choice3>>
    /\ files' = (user_id :> export_lines(expenses, user_id)) @@ files
    /\ console' = <<Line(<<"Expenses exported to", "expenses-", ".csv">>, user_id)>>
    /\ chart' = <<>>
    /\ UNCHANGED <<pc, user_id, users, expenses, returned, budgetSet>>

\* choice 4, update_budget, when float() accepts the budget
UpdateBudget ==
    /\ pc = "SessionActive"
    /\ \E b \in BudgetInputs :
        LET budget == float(b)
        IN  /\ budget.ok
            /\ typed' = <<Choice4, b>>
            /\ users' = set_budget(users, user_id, budget.value)
            /\ budgetSet' = (user_id :> budget.value) @@ budgetSet
    /\ console' = <<BudgetUpdated>>
    /\ chart' = <<>>
    /\ UNCHANGED <<pc, user_id, expenses, files, returned>>

\* choice 4, update_budget, when float() raises ValueError
UpdateBudgetValueError ==
    /\ pc = "SessionActive"
    /\ \E b \in BudgetInputs :
        /\ ~float(b).ok
        /\ typed' = <<Choice4, b>>
    /\ pc' = "Aborted"
    /\ console' = <<>>
    /\ chart' = <<>>
    /\ UNCHANGED <<user_id, users, expenses, files, returned, budgetSet>>

Logout_keeping_user ==
    /\ pc = "SessionActive"
    /\ typed' = <<Choice5>>
    /\ console' = <<Exiting>>
    /\ chart' = <<>>
    /\ UNCHANGED <<pc, user_id, users, expenses, files, returned, budgetSet>>

\* choice 5: user_id = ''
Logout ==
    /\ pc = "SessionActive"
    /\ typed' = <<Choice5>>
    /\ user_id' = NoUser
    /\ pc' = "AwaitingUsername"
    /\ console' = <<Exiting>>
    /\ chart' = <<>>
    /\ UNCHANGED <<users, expenses, files, returned, budgetSet>>

\* any other choice: the else branch
Invalid ==
    /\ pc = "SessionActive"
    /\ \E choice \in OtherChoices : typed' = <<choice>>
    /\ console' = <<InvalidChoice>>
    /\ chart' = <<>>
    /\ UNCHANGED <<pc, user_id, users, expenses, files, returned, budgetSet>>

\* one pass of the while loop, from one prompt to the next
Next ==
    \/ Exit(PlainUsernames)
    \/ Login(PlainUsernames)
    \/ AddExpense(ExpenseInputs)
    \/ AddExpenseValueError(ExpenseInputs)
    \/ ViewSummary
    \/ Export
    \/ UpdateBudget
    \/ UpdateBudgetValueError
    \/ Logout
    \/ Invalid

Spec == Init /\ [][Next]_vars

\* the same loop, with usernames typed in several spellings
NextNames ==
    \/ Exit(UsernameInputs)
    \/ Login(UsernameInputs)
    \/ AddExpense(FewExpenseInputs)
    \/ AddExpenseValueError(FewExpenseInputs)
    \/ ViewSummary
    \/ Export
    \/ UpdateBudget
    \/ UpdateBudgetValueError
    \/ Logout
    \/ Invalid

SpecNames == Init /\ [][NextNames]_vars

-----------------------------------------------------------------------------
(* Vocabulary of the claims *)

CaseTwins(c, d) ==
    \/ c = d
    \/ \E i \in 1..Len(UpperCase) : {c, d} = {UpperCase[i], LowerCase[i]}

Trimmed(text) ==
    LET inked == {i \in 1..Len(text) : text[i] \notin Whitespace}
    IN  IF inked = {} THEN <<>>
        ELSE SubSeq(text, CHOOSE i \in inked : \A j \in inked : i <= j,
                          CHOOSE i \in inked : \A j \in inked : j <= i)

\* two texts that differ at most in letter case and surrounding whitespace
SameUsername(n, m) ==
    /\ Len(Trimmed(n)) = Len(Trimmed(m))
    /\ \A i \in 1..Len(Trimmed(n)) : CaseTwins(Trimmed(n)[i], Trimmed(m)[i])

\* the word exit in any letter case, and nothing around it
SpellsExit(text) ==
    /\ Len(text) = Len(ExitWord)
    /\ \A i \in 1..Len(text) : CaseTwins(text[i], ExitWord[i])

\* a text made of digits, signs, points and blanks only, with a digit in it
LooksNumeric(text) ==
    /\ \E i \in 1..Len(text) : IsDigit(text[i])
    /\ \A i \in 1..Len(text) : IsDigit(text[i]) \/ text[i] \in {"+", "-", ".", " "}

UserIds == {users[i].id : i \in 1..Len(users)}

OwnExpenses(uid) == {i \in 1..Len(expenses) : expenses[i].user_id = uid}

RECURSIVE AmountOver(_)
AmountOver(rows) ==
    IF rows = {} THEN 0
    ELSE LET i == CHOOSE j \in rows : TRUE
         IN  expenses[i].amount + AmountOver(rows \ {i})

BudgetOf(uid) == users[CHOOSE i \in 1..Len(users) : users[i].id = uid].budget

\* the last step was a login
JustLoggedIn == pc = "SessionActive" /\ Len(typed) = 1 /\ typed[1] \in UsernameInputs

\* the last step was menu choice c, carried through
JustChose(c) == pc = "SessionActive" /\ typed # <<>> /\ typed[1] = c

\* what the csv module reads back from a line: fields split at commas,
\* quoted fields unquoted, doubled quotes halved
RECURSIVE ReadFields(_, _, _, _)
ReadFields(rest, field, fields, quoted) ==
    IF rest = <<>> THEN Append(fields, field)
    ELSE IF quoted
         THEN IF Head(rest) # "\""
              THEN ReadFields(Tail(rest), Append(field, Head(rest)), fields, TRUE)
              ELSE IF Len(rest) >= 2 /\ rest[2] = "\""
                   THEN ReadFields(SubSeq(rest, 3, Len(rest)), Append(field, "\""),
                                   fields, TRUE)
                   ELSE ReadFields(Tail(rest), field, fields, FALSE)
         ELSE IF Head(rest) = "\"" /\ field = <<>>
              THEN ReadFields(Tail(rest), field, fields, TRUE)
              ELSE IF Head(rest) = ","
                   THEN ReadFields(Tail(rest), <<>>, Append(fields, field), FALSE)
                   ELSE ReadFields(Tail(rest), Append(field, Head(rest)), fields, FALSE)

\* a line of a csv file, read back as a reader of the format reads it
ReadLine(line) == ReadFields(line, <<>>, <<>>, FALSE)

\* a data line, with its amount read back as a number
ReadExpense(line) ==
    LET f == ReadLine(line)
    IN  IF Len(f) = 4 /\ float(f[2]).ok
        THEN <<f[1], float(f[2]).value, f[3], f[4]>>
        ELSE <<"unreadable">>

Occurrences(seq, x) == Cardinality({i \in 1..Len(seq) : seq[i] = x})

StoredTuple(i) ==
    <<expenses[i].description, expenses[i].amount, expenses[i].category,
      expenses[i].date>>

\* a login that resolved the typed username and ran check_budget
ResolvedAs(input) ==
    /\ pc' = "SessionActive"
    /\ \E i \in 1..Len(users') :
          users'[i].id = user_id' /\ SameUsername(users'[i].username, input)
    /\ <<input, user_id'>> \in returned'
    /\ \/ console' = <<NoExpensesFound>>
       \/ \E line \in Range(console') : line.text = <<"Total Expenses: $">>

\* the program ended without touching the store
EndedUnresolved ==
    /\ pc' = "Terminated"
    /\ UNCHANGED <<user_id, users, expenses, files, returned>>

\* the typed amount (choice 1) or budget (choice 4) is not a number
NotANumberTyped ==
    \/ typed'[1] = Choice1 /\ Len(typed') >= 3 /\ ~LooksNumeric(typed'[3])
    \/ typed'[1] = Choice4 /\ Len(typed') >= 2 /\ ~LooksNumeric(typed'[2])

ChoiceFive ==
    typed'[1] = Choice5 => pc' = "AwaitingUsername" /\ user_id' = NoUser

InvalidChangesNothing ==
    typed'[1] \notin {Choice1, Choice2, Choice3, Choice4, Choice5} =>
        UNCHANGED <<users, expenses, files>>

TerminatedFinal ==
    /\ pc = "Terminated" => UNCHANGED vars
    /\ pc' = "Terminated" => pc \in {"AwaitingUsername", "Terminated"}

-----------------------------------------------------------------------------
(* C1: whenever fetch_or_create_user_id has been called with two usernames  *)
(* that differ only in letter case and surrounding whitespace, in either   *)
(* order and with any operations in between, it returned the same id.      *)

C1_SameIdForSameUsername ==
    \A p \in returned, q \in returned :
        SameUsername(p[1], q[1]) => p[2] = q[2]

\* both spellings of a username have been used, with an expense added meanwhile
C1_Witness ==
    /\ \E p \in returned, q \in returned : p[1] # q[1] /\ SameUsername(p[1], q[1])
    /\ expenses # <<>>

(* C2: no two rows of users have usernames that are equal up to letter     *)
(* case and surrounding whitespace; so a login under another spelling of   *)
(* an existing username adds no row.                                        *)

C2_UsernamesUnique ==
    \A i \in 1..Len(users), j \in 1..Len(users) :
        SameUsername(users[i].username, users[j].username) => i = j

\* a login under a second spelling, with two users in the table
C2_Witness ==
    /\ JustLoggedIn
    /\ \E p \in returned : p[1] # typed[1] /\ SameUsername(p[1], typed[1])
    /\ Len(users) = 2

(* C3: every expense row's user_id is the id of a row of users.            *)

C3_ExpenseOwnerExists ==
    \A i \in 1..Len(expenses) : expenses[i].user_id \in UserIds

\* expenses of two different users
C3_Witness ==
    \E i \in 1..Len(expenses), j \in 1..Len(expenses) :
        expenses[i].user_id # expenses[j].user_id

(* C4: after a step that runs check_budget (a login, an added expense),   *)
(* for a user with expenses the console says Budget Exceeded exactly when  *)
(* the sum of the user's amounts is strictly greater than the user's       *)
(* budget, and always gives that total and that budget; for a user with    *)
(* no expenses it says only No expenses found, whatever the budget.        *)

C4_CheckBudgetReport ==
    (JustLoggedIn \/ JustChose(Choice1)) =>
        LET total == AmountOver(OwnExpenses(user_id))
            budget == BudgetOf(user_id)
            report == SelectSeq(console, LAMBDA line : line # ExpenseAdded)
        IN  IF OwnExpenses(user_id) = {}
            THEN report = <<NoExpensesFound>>
            ELSE /\ BudgetExceeded \in Range(report) <=> total > budget
                 /\ Line(<<"Total Expenses: $">>, total) \in Range(report)
                 /\ Line(<<"Budget: $">>, budget) \in Range(report)
                 /\ NoExpensesFound \notin Range(report)

\* check_budget ran for a user whose expenses sum to exactly the budget
C4_Witness ==
    /\ JustLoggedIn \/ JustChose(Choice1)
    /\ OwnExpenses(user_id) # {}
    /\ AmountOver(OwnExpenses(user_id)) = BudgetOf(user_id)
    /\ BudgetOf(user_id) # 0

(* C5: right after an export, the file of the current user reads back as   *)
(* the header and then exactly the (description, amount, category, date)   *)
(* of that user's expense rows, each as often as it was added, and nothing *)
(* of any other user; a later export replaces the file the same way.       *)

C5_ExportRoundTrip ==
    JustChose(Choice3) =>
        /\ user_id \in DOMAIN files
        /\ LET lines == files[user_id]
               data == [i \in 1..(Len(lines) - 1) |-> ReadExpense(lines[i + 1])]
           IN  /\ lines # <<>>
               /\ ReadLine(lines[1]) = Fieldnames
               /\ Len(data) = Cardinality(OwnExpenses(user_id))
               /\ \A i \in OwnExpenses(user_id) :
                     Occurrences(data, StoredTuple(i))
                       = Cardinality({j \in OwnExpenses(user_id) :
                                         StoredTuple(j) = StoredTuple(i)})

\* an export of a user's quoted expense while another user has an expense too
C5_Witness ==
    /\ JustChose(Choice3)
    /\ \E i \in OwnExpenses(user_id) : "," \in Range(expenses[i].description)
    /\ \E i \in 1..Len(expenses) : expenses[i].user_id # user_id

(* C6: get_budget gives 0 for a user whose budget was never updated, and   *)
(* otherwise the value of the last update of that user's budget; nothing   *)
(* else changes it.                                                         *)

C6_BudgetIsLastUpdate ==
    \A uid \in UserIds :
        get_budget(users, uid) = IF uid \in DOMAIN budgetSet THEN budgetSet[uid] ELSE 0

\* one user with a negative budget and expenses, another never updated
C6_Witness ==
    /\ \E uid \in UserIds :
        uid \in DOMAIN budgetSet /\ budgetSet[uid] < 0 /\ OwnExpenses(uid) # {}
    /\ \E uid \in UserIds : uid \notin DOMAIN budgetSet
    /\ pc = "AwaitingUsername"

(* C7 as stated: at the username prompt the input exit ends the program   *)
(* without creating or resolving a user, and every other non-empty input   *)
(* resolves or creates the user, runs check_budget and starts the session. *)

C7_AsStated ==
    [][pc = "AwaitingUsername" =>
          IF typed'[1] = ExitWord THEN EndedUnresolved
          ELSE typed'[1] # <<>> => ResolvedAs(typed'[1])]_vars

(* C7, amended: the input that ends the program is the word exit in any    *)
(* letter case (exit, Exit, EXIT), with nothing around it; every other     *)
(* non-empty input, " exit" included, resolves or creates the user named   *)
(* by it, runs check_budget and starts the session with that user's id.    *)

C7_ExitInAnyCase ==
    [][pc = "AwaitingUsername" =>
          IF SpellsExit(typed'[1]) THEN EndedUnresolved
          ELSE typed'[1] # <<>> => ResolvedAs(typed'[1])]_vars

\* the program ended on the word exit typed with capitals
C7_Witness ==
    /\ pc = "Terminated"
    /\ typed[1] # ExitWord
    /\ SpellsExit(typed[1])
    /\ users # <<>>

(* C8 as stated: in a session, choice 5 clears the user and returns to the *)
(* username prompt; every other input keeps the session and its user; an   *)
(* invalid choice changes neither table nor any file; Terminated is final  *)
(* and entered only from the username prompt.                               *)

C8_AsStated ==
    [][/\ pc = "SessionActive" =>
            /\ ChoiceFive
            /\ typed'[1] # Choice5 => pc' = "SessionActive" /\ user_id' = user_id
            /\ InvalidChangesNothing
       /\ TerminatedFinal]_vars

(* C8, amended: as stated, except that choice 1 with an amount that is not *)
(* a number and choice 4 with a budget that is not a number end the        *)
(* process with an uncaught error: the session is left, for a state that   *)
(* is neither the username prompt nor Terminated, and that is final too.   *)

C8_SessionTransitions ==
    [][/\ pc = "SessionActive" =>
            /\ ChoiceFive
            /\ typed'[1] # Choice5 =>
                  IF NotANumberTyped THEN pc' = "Aborted"
                  ELSE pc' = "SessionActive" /\ user_id' = user_id
            /\ InvalidChangesNothing
       /\ TerminatedFinal
       /\ pc = "Aborted" => UNCHANGED vars]_vars

\* back at the username prompt after choice 5, with stored expenses
C8_Witness ==
    /\ pc = "AwaitingUsername"
    /\ typed = <<Choice5>>
    /\ user_id = NoUser
    /\ Len(expenses) = MaxExpenses

(* C9: an amount (choice 1) or a budget (choice 4) that is not a number is *)
(* not asked for again: the process ends there and then, and both tables   *)
(* and the files are as they were before the choice.                       *)

C9_MalformedNumberEndsProcess ==
    [][/\ pc = "SessionActive" /\ NotANumberTyped =>
            pc' = "Aborted" /\ UNCHANGED <<users, expenses, files>>
       /\ pc = "Aborted" => UNCHANGED vars]_vars

\* the process ended on a malformed amount, after an expense and a budget were stored
C9_Witness ==
    /\ pc = "Aborted"
    /\ typed[1] = Choice1
    /\ expenses # <<>>
    /\ \E i \in 1..Len(users) : users[i].budget # 0

(* C10: a user row is never deleted, its id and username never change, and *)
(* its budget changes only by choice 4 of that user's session; an expense  *)
(* row is never deleted or changed, and only choice 1 creates one.         *)

C10_StoreOnlyGrows ==
    [][/\ \A i \in 1..Len(users) : \E j \in 1..Len(users') :
             /\ users'[j].id = users[i].id
             /\ users'[j].username = users[i].username
             /\ users'[j].budget # users[i].budget =>
                   /\ pc = "SessionActive"
                   /\ typed'[1] = Choice4
                   /\ user_id = users[i].id
       /\ Len(users') >= Len(users)
       /\ \A i \in 1..Len(expenses) : \E j \in 1..Len(expenses') :
             expenses'[j] = expenses[i]
       /\ Len(expenses') >= Len(expenses)
       /\ Len(expenses') > Len(expenses) =>
             pc = "SessionActive" /\ typed'[1] = Choice1]_vars

\* two users, one with a changed budget, and as many expenses as the bound allows
C10_Witness ==
    /\ Len(users) = 2
    /\ Len(expenses) = MaxExpenses
    /\ \E i \in 1..Len(users) : users[i].budget # 0
    /\ \E i \in 1..Len(users) : users[i].budget = 0

====
